---- MODULE Spec2Model ----
(***************************************************************************)
(* A model of thumbor_carousel.Filter (src/src/thumbor_carousel/           *)
(* __init__.py): the carousel filter of a thumbor image server.            *)
(*                                                                         *)
(* One request is one call of Filter.carousel.  Every `await` of the code  *)
(* (storage.get, loader.load, storage.put, storage.put_crypto) is one step *)
(* of the model; the synchronous code that follows the last await          *)
(* (decoding, stretch, join, add_more_text, the hand-off of the output) is *)
(* the single step Compose.  The storage outlives the requests, everything *)
(* else is per request.                                                    *)
(***************************************************************************)
EXTENDS Integers, Sequences, FiniteSets, TLC

\* ------------------------------------------------------------------ bounds
\* Longest decoded payload (characters of the comma separated URL list).
MaxText == 4
\* Largest img_count, img_height and img_spacing a request asks for.
MaxCount == 2
MaxHeight == 2
MaxSpacing == 1
\* Largest width or height of an image handed to stretch on its own
\* (SpecStretch) and largest tile width handed to join on its own (SpecJoin).
MaxDim == 15
MaxTile == 3
\* Longest engine list and widest gap handed to join on its own (SpecJoin).
MaxTiles == 3
MaxGap == 2

\* ------------------------------------------------------- program constants
\* Python's float is an IEEE-754 double: 53 significant bits.
MantissaBits == 53
\* The status of every tornado.web.HTTPError the filter raises.
BadRequest == 400
\* carousel's defaults.
DefaultImgCount == 1
DefaultImgHeight == 100
DefaultImgSpacing == 10

VARIABLES
    hasValidate,   \* hasattr(self.context.modules.loader, "validate")
    cache,         \* self.storage: url -> bytes, None where there is no entry
    crypto,        \* the urls self.storage.put_crypto was called for
    pc,            \* where the request stands
    urls,          \* load_images: urls
    idx,           \* load_images: the position of `url` in urls (1-based)
    buffer,        \* load_images: buffer
    images,        \* load_images: images
    img_count,     \* carousel's arguments
    img_height,
    img_spacing,
    image,         \* self.engine.image
    format,        \* self.context.request.format
    error,         \* the HTTPError raised, NoError while none is
    log,           \* history: the collaborator calls made, in order
    reqNo          \* history: the requests the log spans

vars == <<hasValidate, cache, crypto, pc, urls, idx, buffer, images,
          img_count, img_height, img_spacing, image, format, error, log, reqNo>>

\* --------------------------------------------------------------- the data
None == [kind |-> "None"]
NoError == [status |-> 0, msg |-> ""]
HTTPError(status, msg) == [status |-> status, msg |-> msg]

\* The characters of a decoded payload: a letter of a url, and the separator.
Chars == {"a", ","}
Texts == UNION {[1..n -> Chars] : n \in 0..MaxText}
\* Every url a payload can name.
Urls == UNION {[1..n -> {"a"}] : n \in 0..MaxText}

\* The encoded image the loader serves for a url, and the size it decodes to.
Bytes(url) == [kind |-> "bytes", url |-> url]
DecodedSize(buf) == <<2 * Len(buf.url) + 1, Len(buf.url) + 2>>

\* What loader.load may return for a url: the bytes themselves, or a
\* LoaderResult, successful with the bytes or unsuccessful without.
LoaderResults(url) ==
    { Bytes(url),
      [kind |-> "LoaderResult", successful |-> TRUE, buffer |-> Bytes(url)],
      [kind |-> "LoaderResult", successful |-> FALSE, buffer |-> None] }

\* The image and the format of the request before the filter runs.
OriginalImage == [kind |-> "original"]
OriginalFormat == "original"

\* carousel's default colours.
background_color == "ffffff"
more_text_color == "000000"

\* str.split(','): the pieces between the separators, empty ones included; a
\* text without separator, the empty text too, is one piece.
RECURSIVE Split(_)
Split(text) ==
    IF \A i \in 1..Len(text) : text[i] # ","
    THEN <<text>>
    ELSE LET i == CHOOSE k \in 1..Len(text) :
                      text[k] = "," /\ \A j \in 1..(k - 1) : text[j] # ","
         IN  <<SubSeq(text, 1, i - 1)>> \o Split(SubSeq(text, i + 1, Len(text)))

\* ------------------------------------------------- Python float arithmetic
\* stretch computes (width / height) * target in doubles and truncates.  A
\* double is held as its exponent e and its 53 significant bits m: the
\* leading bit, which is 1, followed by four limbs of 13 bits each.  Its value
\* is (m read as a binary number) * 2^(e - 52).  Limbs keep every number of
\* the arithmetic small; the operands are positive ints below 2^13.
RECURSIVE Pow2(_)
Pow2(n) == IF n = 0 THEN 1 ELSE 2 * Pow2(n - 1)

LimbBits == (MantissaBits - 1) \div 4
Radix == Pow2(LimbBits)

\* The e with 2^e <= num/den < 2^(e+1).
RECURSIVE Exponent(_, _)
Exponent(num, den) ==
    IF num >= 2 * den THEN Exponent(num, 2 * den) + 1
    ELSE IF num < den THEN Exponent(2 * num, den) - 1
    ELSE 0

\* Long division: the next n limbs of r/den (r < den) and the remainder left.
RECURSIVE DivLimbs(_, _, _)
DivLimbs(r, den, n) ==
    IF n = 0 THEN <<<<>>, r>>
    ELSE LET rest == DivLimbs((r * Radix) % den, den, n - 1)
         IN  <<(<<(r * Radix) \div den>> \o rest[1]), rest[2]>>

\* limbs + 1: the carry out of the first limb, and the limbs.
RECURSIVE Increment(_)
Increment(limbs) ==
    IF limbs = <<>> THEN <<1, <<>>>>
    ELSE LET n == Len(limbs)
             front == SubSeq(limbs, 1, n - 1)
         IN  IF limbs[n] + 1 < Radix THEN <<0, front \o <<limbs[n] + 1>>>>
             ELSE LET r == Increment(front) IN <<r[1], r[2] \o <<0>>>>

\* The double next above the one of limbs and exponent e (the round-up).
NextUp(limbs, e) ==
    LET inc == Increment(limbs)
    IN  [m |-> <<1>> \o inc[2], e |-> e + inc[1]]

\* w / h of two positive ints: the quotient rounded to the nearest double,
\* ties to even.
FloatDiv(w, h) ==
    LET e == Exponent(w, h)
        num == IF e < 0 THEN w * Pow2(-e) ELSE w
        den == IF e > 0 THEN h * Pow2(e) ELSE h
        d == DivLimbs(num - den, den, 4)
        limbs == d[1]
        r == d[2]
    IN  IF 2 * r > den \/ (2 * r = den /\ limbs[4] % 2 = 1)
        THEN NextUp(limbs, e)
        ELSE [m |-> <<1>> \o limbs, e |-> e]

\* The number of binary digits of n.
RECURSIVE BitLength(_)
BitLength(n) == IF n = 0 THEN 0 ELSE BitLength(n \div 2) + 1

\* limbs * k + carry, from the last limb up: the carry out, and the limbs.
RECURSIVE MulLimbs(_, _, _)
MulLimbs(limbs, k, carry) ==
    IF limbs = <<>> THEN <<carry, <<>>>>
    ELSE LET n == Len(limbs)
             t == limbs[n] * k + carry
             r == MulLimbs(SubSeq(limbs, 1, n - 1), k, t \div Radix)
         IN  <<r[1], r[2] \o <<t % Radix>>>>

\* The limbs moved down by n bits, `carry` coming in at the top: the limbs,
\* and the n bits that fall off the end.
RECURSIVE ShiftRight(_, _, _)
ShiftRight(limbs, carry, n) ==
    IF limbs = <<>> THEN <<<<>>, carry>>
    ELSE LET r == ShiftRight(Tail(limbs), Head(limbs) % Pow2(n), n)
         IN  <<(<<carry * Pow2(LimbBits - n) + Head(limbs) \div Pow2(n)>> \o r[1]), r[2]>>

\* x * k of a double and a positive int: the product rounded to the nearest
\* double, ties to even.
FloatMulInt(x, k) ==
    LET product == MulLimbs(Tail(x.m), k, 0)
        top == k + product[1]
        extra == BitLength(top) - 1
        shifted == ShiftRight(product[2], top % Pow2(extra), extra)
        kept == shifted[1]
        dropped == shifted[2]
        up == /\ extra > 0
              /\ dropped \div Pow2(extra - 1) = 1
              /\ \/ dropped % Pow2(extra - 1) # 0
                 \/ kept[4] % 2 = 1
    IN  IF up THEN NextUp(kept, x.e + extra)
        ELSE [m |-> <<1>> \o kept, e |-> x.e + extra]

\* The first n bits of v followed by the limbs.
RECURSIVE TopBits(_, _, _)
TopBits(v, limbs, n) ==
    IF n = 0 \/ limbs = <<>> THEN v
    ELSE IF n >= LimbBits
    THEN TopBits(v * Radix + Head(limbs), Tail(limbs), n - LimbBits)
    ELSE v * Pow2(n) + Head(limbs) \div Pow2(LimbBits - n)

\* int(x) of a positive double: the digits before the binary point.
FloatToInt(x) == IF x.e < 0 THEN 0 ELSE TopBits(1, Tail(x.m), x.e)

\* ------------------------------------------------------------ the engines
\* A thumbor engine holding a decoded image: engine.load, engine.enable_alpha.
LoadEngine(buf) ==
    [kind |-> "decoded", src |-> buf.url, alpha |-> TRUE,
     w |-> DecodedSize(buf)[1], h |-> DecodedSize(buf)[2]]

\* The new width rounded to the nearest integer instead of truncated.
NewWidthRounded(width, height0, height) ==
    (2 * width * height + height0) \div (2 * height0)

\* Filter.stretch: new_width = int((width / engine.size[1]) * height).
NewWidth(width, height0, height) == FloatToInt(FloatMulInt(FloatDiv(width, height0), height))

\* Filter.stretch: engine.resize(new_width, height).
stretch(engine, height) ==
    [engine EXCEPT !.w = NewWidth(engine.w, engine.h, height), !.h = height]

\* Filter.carousel: the loop that stretches every engine to img_height.
StretchAll(engines, height) ==
    [i \in 1..Len(engines) |-> stretch(engines[i], height)]

\* engine.gen_image and engine.paste: a canvas and what was pasted on it.
gen_image(w, h, color) ==
    [kind |-> "canvas", w |-> w, h |-> h, color |-> color, pastes |-> <<>>]
paste(canvas, engine, x, y) ==
    [canvas EXCEPT !.pastes = Append(@, [img |-> engine, x |-> x, y |-> y])]

\* The spacing added after every engine, the last one too.
RECURSIVE AdvanceGapAfterLast(_, _, _)
AdvanceGapAfterLast(engines, spacing, k) ==
    IF k = 0 THEN 0
    ELSE AdvanceGapAfterLast(engines, spacing, k - 1) + engines[k].w + spacing

\* Filter.join: what both loops have added up after k engines.
RECURSIVE Advance(_, _, _)
Advance(engines, spacing, k) ==
    IF k = 0 THEN 0
    ELSE Advance(engines, spacing, k - 1) + engines[k].w
         + (IF k - 1 < Len(engines) - 1 THEN spacing ELSE 0)

RECURSIVE PasteAll(_, _, _, _)
PasteAll(canvas, engines, spacing, k) ==
    IF k = 0 THEN canvas
    ELSE paste(PasteAll(canvas, engines, spacing, k - 1), engines[k],
               Advance(engines, spacing, k - 1), 0)

\* Filter.join.
join(engines, spacing, color) ==
    LET height == engines[1].h
        width == Advance(engines, spacing, Len(engines))
    IN  PasteAll(gen_image(width, height, color), engines, spacing, Len(engines))

\* f"+{count}": the sign and the decimal digits of count.
RECURSIVE Digits(_)
Digits(n) == IF n < 10 THEN <<n>> ELSE Digits(n \div 10) \o <<n % 10>>
MoreText(count) == <<"+">> \o Digits(count)

\* cv2.getTextSize at font_scale = tenths / 10: the font's metrics grow with
\* the scale; a character is 20 wide and 20 high at scale 1.
getTextSize(text, tenths) == <<2 * Len(text) * tenths, 2 * tenths>>

\* Filter.text: the loop that grows font_scale by 0.1 until the text is at
\* least height // 1.5 wide; the scale it stops at, in tenths.
RECURSIVE FontScale(_, _, _)
FontScale(height, text, tenths) ==
    IF getTextSize(text, tenths + 1)[1] >= (2 * height) \div 3
    THEN tenths + 1
    ELSE FontScale(height, text, tenths + 1)

\* Filter.text: the engine of the rendered text (its width is the second
\* value the code returns).
text(height, txt, color) ==
    LET tenths == FontScale(height, txt, 0)
        text_size == getTextSize(txt, tenths)
    IN  [kind |-> "text", text |-> txt, color |-> color, w |-> text_size[1],
         h |-> height, text_y |-> (height + text_size[2]) \div 2]

\* Filter.add_more_text.
add_more_text(engine, count, height, spacing, color, bg) ==
    LET more_text_engine == text(height, MoreText(count), color)
        more_text_width == more_text_engine.w
        new_engine == gen_image(engine.w + more_text_width + spacing, height, bg)
    IN  paste(paste(new_engine, engine, 0, 0),
              more_text_engine, engine.w + spacing, 0)

\* The overflow text added already when the images just fill the slots.
CarouselOffByOne(engines, count, height, spacing) ==
    LET image_engines == StretchAll(engines, height)
        carousel_engine == join(image_engines, spacing, "#" \o background_color)
    IN  IF Len(image_engines) >= count
        THEN add_more_text(carousel_engine, Len(image_engines) - count, height,
                           spacing, "#" \o more_text_color, "#" \o background_color)
        ELSE carousel_engine

\* Filter.carousel after load_images returned: the image handed to the host.
Carousel(engines, count, height, spacing) ==
    LET image_engines == StretchAll(engines, height)
        carousel_engine == join(image_engines, spacing, "#" \o background_color)
    IN  IF Len(image_engines) > count
        THEN add_more_text(carousel_engine, Len(image_engines) - count, height,
                           spacing, "#" \o more_text_color, "#" \o background_color)
        ELSE carousel_engine

\* -------------------------------------------------------------- the steps
Init ==
    /\ hasValidate \in BOOLEAN
    /\ cache = [u \in Urls |-> None]
    /\ crypto = {}
    /\ pc = "idle"
    /\ urls = <<>>
    /\ idx = 0
    /\ buffer = None
    /\ images = <<>>
    /\ img_count = DefaultImgCount
    /\ img_height = DefaultImgHeight
    /\ img_spacing = DefaultImgSpacing
    /\ image = OriginalImage
    /\ format = OriginalFormat
    /\ error = NoError
    /\ log = <<>>
    /\ reqNo = 0

Ended == {"done", "failed"}

Call(op, ok) == [req |-> reqNo, op |-> op, pos |-> idx, url |-> urls[idx], ok |-> ok]

\* raise tornado.web.HTTPError(...): the request ends; nothing else changes.
Raise(err) == pc' = "failed" /\ error' = err

\* The for loop of load_images moves to the next url, or past the last one.
NextUrl ==
    /\ idx' = idx + 1
    /\ pc' = IF idx + 1 > Len(urls) THEN "compose" ELSE "validate"

\* Filter.carousel is called on a new Filter: load_images decodes and splits
\* the payload (`payload` is the decoded text) and refuses an empty list.
Begin(payload, count, height, spacing) ==
    /\ urls' = Split(payload)
    /\ img_count' = count
    /\ img_height' = height
    /\ img_spacing' = spacing
    /\ images' = <<>>
    /\ buffer' = None
    /\ idx' = 1
    /\ image' = OriginalImage
    /\ format' = OriginalFormat
    /\ IF Len(Split(payload)) <= 0
       THEN Raise(HTTPError(BadRequest, "No images provided"))
       ELSE pc' = "validate" /\ error' = NoError
    /\ UNCHANGED <<hasValidate, cache, crypto>>

\* A request arrives: thumbor builds a Filter for it and calls carousel.
StartRequest ==
    /\ pc = "idle"
    /\ \E payload \in Texts, count \in 1..MaxCount,
          height \in 1..MaxHeight, spacing \in 1..MaxSpacing :
          Begin(payload, count, height, spacing)
    /\ log' = <<>>
    /\ reqNo' = 1

\* The request is over: its Filter, its engines and its context are dropped;
\* the storage stays as the request left it.
Finish ==
    /\ pc \in Ended
    /\ pc' = "idle"
    /\ urls' = <<>>
    /\ idx' = 0
    /\ buffer' = None
    /\ images' = <<>>
    /\ img_count' = DefaultImgCount
    /\ img_height' = DefaultImgHeight
    /\ img_spacing' = DefaultImgSpacing
    /\ image' = OriginalImage
    /\ format' = OriginalFormat
    /\ error' = NoError
    /\ log' = <<>>
    /\ reqNo' = 0
    /\ UNCHANGED <<hasValidate, cache, crypto>>

\* A validate whose verdict is not acted on: a rejected url is looked up.
ValidateVerdictIgnored ==
    /\ pc = "validate"
    /\ IF ~hasValidate
       THEN UNCHANGED log
       ELSE \E ok \in BOOLEAN : log' = Append(log, Call("validate", ok))
    /\ pc' = "get"
    /\ UNCHANGED <<hasValidate, cache, crypto, urls, idx, buffer, images,
                   img_count, img_height, img_spacing, image, format, error, reqNo>>

\* Filter.validate for the url at hand.
Validate ==
    /\ pc = "validate"
    /\ IF ~hasValidate
       THEN pc' = "get" /\ UNCHANGED <<error, log>>
       ELSE \E ok \in BOOLEAN :
              /\ log' = Append(log, Call("validate", ok))
              /\ IF ok THEN pc' = "get" /\ UNCHANGED error
                 ELSE Raise(HTTPError(BadRequest, ""))
    /\ UNCHANGED <<hasValidate, cache, crypto, urls, idx, buffer, images,
                   img_count, img_height, img_spacing, image, format, reqNo>>

\* A lookup whose hit is not used: the url is fetched again.
StorageGetRefetches ==
    /\ pc = "get"
    /\ buffer' = cache[urls[idx]]
    /\ log' = Append(log, Call("get", cache[urls[idx]] # None))
    /\ pc' = "load"
    /\ UNCHANGED <<hasValidate, cache, crypto, urls, idx, images, img_count,
                   img_height, img_spacing, image, format, error, reqNo>>

\* buffer = await self.storage.get(url); a hit is kept and the loop goes on.
StorageGet ==
    /\ pc = "get"
    /\ buffer' = cache[urls[idx]]
    /\ log' = Append(log, Call("get", cache[urls[idx]] # None))
    /\ IF cache[urls[idx]] # None
       THEN images' = Append(images, cache[urls[idx]]) /\ NextUrl
       ELSE pc' = "load" /\ UNCHANGED <<images, idx>>
    /\ UNCHANGED <<hasValidate, cache, crypto, urls, img_count, img_height,
                   img_spacing, image, format, error, reqNo>>

\* A load whose unsuccessful result is not checked: its buffer is used.
LoaderLoadUnchecked ==
    /\ pc = "load"
    /\ \E result \in LoaderResults(urls[idx]) :
         LET isLoaderResult == result.kind = "LoaderResult"
             bad == isLoaderResult /\ ~result.successful
         IN  /\ log' = Append(log, Call("load", ~bad))
             /\ buffer' = IF isLoaderResult THEN result.buffer ELSE result
             /\ pc' = "put"
    /\ UNCHANGED <<hasValidate, cache, crypto, urls, idx, images, img_count,
                   img_height, img_spacing, image, format, error, reqNo>>

\* result = await loader.load(context, url), and what the code makes of it.
LoaderLoad ==
    /\ pc = "load"
    /\ \E result \in LoaderResults(urls[idx]) :
         LET isLoaderResult == result.kind = "LoaderResult"
             bad == isLoaderResult /\ ~result.successful
         IN  /\ log' = Append(log, Call("load", ~bad))
             /\ IF bad
                THEN /\ Raise(HTTPError(BadRequest,
                                "bad image result error=%s metadata=%s"))
                     /\ UNCHANGED buffer
                ELSE /\ buffer' = IF isLoaderResult THEN result.buffer ELSE result
                     /\ pc' = "put"
                     /\ UNCHANGED error
    /\ UNCHANGED <<hasValidate, cache, crypto, urls, idx, images, img_count,
                   img_height, img_spacing, image, format, reqNo>>

\* A put that leaves the storage as it was.
StoragePutLost ==
    /\ pc = "put"
    /\ log' = Append(log, Call("put", TRUE))
    /\ pc' = "crypto"
    /\ UNCHANGED <<hasValidate, cache, crypto, urls, idx, buffer, images, img_count,
                   img_height, img_spacing, image, format, error, reqNo>>

\* await self.storage.put(url, buffer)
StoragePut ==
    /\ pc = "put"
    /\ cache' = [cache EXCEPT ![urls[idx]] = buffer]
    /\ log' = Append(log, Call("put", TRUE))
    /\ pc' = "crypto"
    /\ UNCHANGED <<hasValidate, crypto, urls, idx, buffer, images, img_count,
                   img_height, img_spacing, image, format, error, reqNo>>

\* The fetched bytes put in front of the list instead of at its end.
StoragePutCryptoPrepends ==
    /\ pc = "crypto"
    /\ crypto' = crypto \cup {urls[idx]}
    /\ log' = Append(log, Call("put_crypto", TRUE))
    /\ images' = <<buffer>> \o images
    /\ NextUrl
    /\ UNCHANGED <<hasValidate, cache, urls, buffer, img_count, img_height,
                   img_spacing, image, format, error, reqNo>>

\* await self.storage.put_crypto(url); images.append(buffer)
StoragePutCrypto ==
    /\ pc = "crypto"
    /\ crypto' = crypto \cup {urls[idx]}
    /\ log' = Append(log, Call("put_crypto", TRUE))
    /\ images' = Append(images, buffer)
    /\ NextUrl
    /\ UNCHANGED <<hasValidate, cache, urls, buffer, img_count, img_height,
                   img_spacing, image, format, error, reqNo>>

\* load_images builds the engines and returns; carousel stretches, joins,
\* adds the overflow text and hands the image over.
Compose ==
    /\ pc = "compose"
    /\ image' = Carousel([i \in 1..Len(images) |-> LoadEngine(images[i])],
                         img_count, img_height, img_spacing)
    /\ format' = "jpeg"
    /\ pc' = "done"
    /\ UNCHANGED <<hasValidate, cache, crypto, urls, idx, buffer, images,
                   img_count, img_height, img_spacing, error, log, reqNo>>

Next ==
    \/ StartRequest
    \/ Finish
    \/ Validate
    \/ StorageGet
    \/ LoaderLoad
    \/ StoragePut
    \/ StoragePutCrypto
    \/ Compose

Spec == Init /\ [][Next]_vars

\* ---------------------------------------------- two requests in sequence
\* The same steps, for two requests one after the other whose calls are kept
\* in one history; both requests leave carousel's other arguments at their
\* defaults.
FirstRequest ==
    /\ pc = "idle"
    /\ \E payload \in Texts :
          Begin(payload, DefaultImgCount, DefaultImgHeight, DefaultImgSpacing)
    /\ log' = <<>>
    /\ reqNo' = 1

SecondRequest ==
    /\ pc \in Ended
    /\ reqNo = 1
    /\ \E payload \in Texts :
          Begin(payload, DefaultImgCount, DefaultImgHeight, DefaultImgSpacing)
    /\ log' = log
    /\ reqNo' = 2

NextTwice ==
    \/ FirstRequest
    \/ SecondRequest
    \/ Validate
    \/ StorageGet
    \/ LoaderLoad
    \/ StoragePut
    \/ StoragePutCrypto
    \/ Compose

SpecTwice == Init /\ [][NextTwice]_vars

\* ------------------------------------------------------- stretch by itself
\* carousel's stretch loop on engines of any size up to MaxDim: `images`
\* holds the engines before the loop, `image` the engines after it.
Engine(w, h) == [kind |-> "decoded", src |-> <<>>, alpha |-> TRUE, w |-> w, h |-> h]

InitStretch ==
    /\ hasValidate = FALSE
    /\ cache = [u \in Urls |-> None]
    /\ crypto = {}
    /\ pc = "stretch_in"
    /\ urls = <<>>
    /\ idx = 0
    /\ buffer = None
    /\ \E w \in 1..MaxDim, h \in 1..MaxDim :
          images \in {<<Engine(w, h)>>, <<Engine(w, h), Engine(h, w)>>}
    /\ img_count = DefaultImgCount
    /\ img_height \in 1..MaxDim
    /\ img_spacing = DefaultImgSpacing
    /\ image = OriginalImage
    /\ format = OriginalFormat
    /\ error = NoError
    /\ log = <<>>
    /\ reqNo = 0

StretchStep ==
    /\ pc = "stretch_in"
    /\ image' = StretchAll(images, img_height)
    /\ pc' = "stretch_out"
    /\ UNCHANGED <<hasValidate, cache, crypto, urls, idx, buffer, images,
                   img_count, img_height, img_spacing, format, error, log, reqNo>>

SpecStretch == InitStretch /\ [][StretchStep]_vars

\* ---------------------------------------------------------- join by itself
\* Filter.join on any list of up to MaxTiles engines of one height: `images`
\* holds the engines, `image` the engine join returns.
EngineLists(h) == UNION {[1..n -> {Engine(w, h) : w \in 0..MaxTile}] : n \in 1..MaxTiles}

InitJoin ==
    /\ hasValidate = FALSE
    /\ cache = [u \in Urls |-> None]
    /\ crypto = {}
    /\ pc = "join_in"
    /\ urls = <<>>
    /\ idx = 0
    /\ buffer = None
    /\ img_count = DefaultImgCount
    /\ img_height \in 1..MaxHeight
    /\ images \in EngineLists(img_height)
    /\ img_spacing \in 1..MaxGap
    /\ image = OriginalImage
    /\ format = OriginalFormat
    /\ error = NoError
    /\ log = <<>>
    /\ reqNo = 0

JoinStep ==
    /\ pc = "join_in"
    /\ image' = join(images, img_spacing, "#" \o background_color)
    /\ pc' = "join_out"
    /\ UNCHANGED <<hasValidate, cache, crypto, urls, idx, buffer, images,
                   img_count, img_height, img_spacing, format, error, log, reqNo>>

SpecJoin == InitJoin /\ [][JoinStep]_vars

\* ================================================================ claims
\* The calls of the history, by position in the log.
LogIndex == 1..Len(log)
IsCall(i, op) == log[i].op = op
StorageOps == {"get", "put", "put_crypto"}
SourceLoadError == HTTPError(BadRequest, "bad image result error=%s metadata=%s")
ForbiddenSourceError == HTTPError(BadRequest, "")
NoImagesError == HTTPError(BadRequest, "No images provided")

\* C1: an unsuccessful loader result, at whatever position of the list, ends
\* the request with the 400 "bad image result" error: it is the last call
\* made, no url after it is touched, and the output image and format stay
\* unset; no failed request ever has an output.
C1_FailedLoadAborts ==
    /\ \A i \in LogIndex :
         (IsCall(i, "load") /\ ~log[i].ok) =>
            /\ i = Len(log)
            /\ pc = "failed"
            /\ error = SourceLoadError
            /\ error.status = 400
            /\ log[i].pos = idx
            /\ \A j \in LogIndex : log[j].pos <= log[i].pos
            /\ Len(images) < Len(urls)
    /\ error = SourceLoadError =>
         \E i \in LogIndex : IsCall(i, "load") /\ ~log[i].ok
    /\ pc # "done" => image = OriginalImage /\ format = OriginalFormat

\* C1's case: the second of three urls fails to load after the first was
\* served from the cache; the third is never reached.
C1_Witness ==
    /\ pc = "failed"
    /\ Len(urls) = 3
    /\ Len(log) > 1
    /\ IsCall(Len(log), "load") /\ ~log[Len(log)].ok /\ log[Len(log)].pos = 2
    /\ \E i \in LogIndex : IsCall(i, "get") /\ log[i].ok /\ log[i].pos = 1
    /\ image = OriginalImage

\* C2: a url the validator rejects ends the request with a bare 400 error and
\* neither that url nor a later one is looked up, fetched or cached; every
\* url that is looked up was accepted first, and without a validate operation
\* on the loader no url is ever refused.
C2_RejectedUrlUntouched ==
    /\ \A i \in LogIndex :
         (IsCall(i, "validate") /\ ~log[i].ok) =>
            /\ i = Len(log)
            /\ pc = "failed"
            /\ error = ForbiddenSourceError
            /\ error.status = 400
            /\ \A j \in LogIndex :
                 log[j].op \in StorageOps \cup {"load"} => log[j].pos < log[i].pos
    /\ \A i \in LogIndex :
         (hasValidate /\ IsCall(i, "get")) =>
            (i > 1 /\ IsCall(i - 1, "validate") /\ log[i - 1].ok
                   /\ log[i - 1].pos = log[i].pos)
    /\ ~hasValidate =>
         /\ error # ForbiddenSourceError
         /\ \A i \in LogIndex : ~IsCall(i, "validate")
         /\ \A p \in 1..Len(urls) :
              (p < idx \/ (p = idx /\ pc \notin {"validate", "get"})) =>
                 \E i \in LogIndex : IsCall(i, "get") /\ log[i].pos = p

\* C2's case: the validator rejects the second of three urls.
C2_Witness ==
    /\ pc = "failed"
    /\ error = ForbiddenSourceError
    /\ Len(urls) = 3
    /\ idx = 2
    /\ IsCall(Len(log), "validate") /\ ~log[Len(log)].ok

\* C3: a payload that decodes to the empty text is refused with "No images
\* provided" before any validation, lookup or fetch.  (The code does not do
\* this: the split of the empty text is one empty url, which is processed.)
C3_EmptyPayloadRefused ==
    (pc # "idle" /\ urls = Split(<<>>)) =>
        (pc = "failed" /\ error = NoImagesError /\ log = <<>>)

\* The calls of one kind made for a url.
Calls(op, u) == {i \in LogIndex : log[i].op = op /\ log[i].url = u}

\* C4: over two requests in sequence that start from an empty cache, a url
\* that is looked up at least twice and whose fetches all succeed is fetched
\* exactly once and stored exactly once: its first lookup is the miss, every
\* later lookup is a hit.
C4_FetchedOnce ==
    \A u \in Urls :
        (Cardinality(Calls("get", u)) >= 2 /\ \A i \in Calls("load", u) : log[i].ok) =>
            /\ Cardinality(Calls("load", u)) = 1
            /\ Cardinality(Calls("put", u)) = 1
            /\ Cardinality(Calls("put_crypto", u)) = 1
            /\ \A i \in Calls("get", u) :
                 log[i].ok <=> \E j \in Calls("get", u) : j < i

\* C4's case: a url asked for by the first request and again by the second:
\* two lookups and one fetch.
C4_Witness ==
    /\ pc = "done"
    /\ reqNo = 2
    /\ \E u \in Urls :
         /\ Cardinality(Calls("get", u)) = 2
         /\ Cardinality(Calls("load", u)) = 1
         /\ \E i, j \in Calls("get", u) : log[i].req = 1 /\ log[j].req = 2

\* The overflow glyph: the output is a canvas whose last paste is a text.
HasGlyph(img) ==
    /\ img.kind = "canvas"
    /\ Len(img.pastes) >= 1
    /\ img.pastes[Len(img.pastes)].img.kind = "text"
\* The canvas join made: the output, or what the glyph was added to.
Joined == IF HasGlyph(image) THEN image.pastes[1].img ELSE image
RECURSIVE PastedWidth(_, _)
PastedWidth(pastes, k) ==
    IF k = 0 THEN 0 ELSE PastedWidth(pastes, k - 1) + pastes[k].img.w

\* C5: the finished output carries the "+N" text exactly when more images
\* were acquired than img_count, with N their surplus; otherwise it is the
\* join of the n tiles, as wide as their widths plus the n - 1 gaps.
C5_GlyphIffOverflow ==
    pc = "done" =>
        LET n == Len(images)
        IN  /\ n >= 1 /\ img_count >= 1
            /\ HasGlyph(image) <=> n > img_count
            /\ n > img_count =>
                 /\ Len(image.pastes) = 2
                 /\ image.pastes[2].img.text = MoreText(n - img_count)
                 /\ n - img_count > 0
            /\ n <= img_count =>
                 /\ Len(image.pastes) = n
                 /\ \A i \in 1..n : image.pastes[i].img.kind = "decoded"
                 /\ image.w = PastedWidth(image.pastes, n) + img_spacing * (n - 1)

\* C5's case: three images for one slot: "+2" is added.
C5_Witness ==
    /\ pc = "done"
    /\ Len(images) = 3
    /\ img_count = 1
    /\ HasGlyph(image)
    /\ image.pastes[2].img.text = <<"+", 2>>

\* C6: with more urls than img_count the output shows img_count tiles, then
\* after one more gap the "+N" text, N the surplus, at height img_height.
\* (The code joins every image, not the first img_count.)
C6_ShowsImgCountTiles ==
    (pc = "done" /\ Len(urls) > img_count) =>
        /\ HasGlyph(image)
        /\ Len(Joined.pastes) = img_count
        /\ image.pastes[2].img.text = MoreText(Len(urls) - img_count)
        /\ image.pastes[2].x = Joined.w + img_spacing
        /\ image.h = img_height

RECURSIVE WidthSum(_, _)
WidthSum(engines, k) == IF k = 0 THEN 0 ELSE WidthSum(engines, k - 1) + engines[k].w

\* C8: join of n engines of height H with spacing s gives a canvas of width
\* sum(width_i) + s * (n - 1) and height H; engine i is pasted at the widths
\* before it plus s * (i - 1), inside the canvas, s before the next one, and
\* the last one ends at the right edge.
C8_JoinLayout ==
    pc = "join_out" =>
        LET n == Len(images)
            at == image.pastes
        IN  /\ image.w = WidthSum(images, n) + img_spacing * (n - 1)
            /\ image.h = img_height
            /\ n = 1 => image.w = images[1].w
            /\ Len(at) = n
            /\ \A i \in 1..n :
                 /\ at[i].img = images[i]
                 /\ at[i].x = WidthSum(images, i - 1) + img_spacing * (i - 1)
                 /\ at[i].y = 0
                 /\ at[i].x >= 0 /\ at[i].x + images[i].w <= image.w
                 /\ at[i].y + images[i].h <= image.h
                 /\ i < n => at[i + 1].x - (at[i].x + images[i].w) = img_spacing
                 /\ i = n => at[i].x + images[i].w = image.w

\* C8's case: three engines of different widths.
C8_Witness ==
    /\ pc = "join_out"
    /\ Len(images) = 3
    /\ images[1].w # images[2].w /\ images[2].w # images[3].w
    /\ image.pastes[3].x = images[1].w + images[2].w + 2 * img_spacing

\* C9, the state: every put of the history follows a miss and a successful
\* fetch of the same url, is followed by its put_crypto, and its bytes are
\* still in the cache; a failed fetch leaves no entry and no marker; a hit is
\* followed by no put.
C9_Written ==
    /\ \A i \in LogIndex :
         IsCall(i, "put") =>
            /\ i > 2
            /\ IsCall(i - 1, "load") /\ log[i - 1].ok /\ log[i - 1].pos = log[i].pos
            /\ IsCall(i - 2, "get") /\ ~log[i - 2].ok /\ log[i - 2].pos = log[i].pos
            /\ cache[log[i].url] = Bytes(log[i].url)
            /\ IF i < Len(log)
               THEN IsCall(i + 1, "put_crypto") /\ log[i + 1].pos = log[i].pos
                    /\ log[i].url \in crypto
               ELSE pc = "crypto"
    /\ \A i \in LogIndex :
         (IsCall(i, "load") /\ log[i].ok) =>
            IF i < Len(log) THEN IsCall(i + 1, "put") ELSE pc = "put"
    /\ \A i \in LogIndex :
         (IsCall(i, "load") /\ ~log[i].ok) =>
            /\ cache[log[i].url] = None
            /\ log[i].url \notin crypto
            /\ Calls("put", log[i].url) = {}
            /\ Calls("put_crypto", log[i].url) = {}
    /\ \A i \in LogIndex :
         (IsCall(i, "get") /\ log[i].ok) =>
            /\ cache[log[i].url] = Bytes(log[i].url)
            /\ \A j \in LogIndex : IsCall(j, "put") => log[j].pos # log[i].pos

\* C9, the steps: the cache changes only by the put of the url at hand, which
\* had no entry, and the markers only by its put_crypto; an entry is never
\* changed or removed.
C9_Frame ==
    /\ \A u \in Urls :
         cache'[u] # cache[u] =>
            (pc = "put" /\ u = urls[idx] /\ cache[u] = None /\ cache'[u] = buffer)
    /\ crypto' # crypto => (pc = "crypto" /\ crypto' = crypto \cup {urls[idx]})

\* C9: what a request, failed or not, leaves in the cache.
C9_CacheEffect == []C9_Written /\ [][C9_Frame]_vars

\* C9's case: the first url of a request was fetched and stored, the second
\* one failed to load: the first one's entry and marker are kept.
C9_Witness ==
    /\ pc = "failed"
    /\ error = SourceLoadError
    /\ idx = 2
    /\ urls[1] # urls[2]
    /\ \E i \in LogIndex : IsCall(i, "put") /\ log[i].pos = 1
    /\ cache[urls[1]] = Bytes(urls[1]) /\ urls[1] \in crypto
    /\ cache[urls[2]] = None

\* C10 as claimed: after stretch every engine has the target height and the
\* width nearest to w * H / h.  (The code truncates.)
C10_RoundsToNearest ==
    pc = "stretch_out" =>
        \A i \in 1..Len(images) :
            LET exact == images[i].w * img_height
                got == image[i].w * images[i].h
            IN  /\ image[i].h = img_height
                /\ 2 * (IF got > exact THEN got - exact ELSE exact - got) <= images[i].h

\* C10 as amended: after stretch every engine has the target height and the
\* width int((w / h) * H) of double arithmetic: w * H / h rounded down, or one
\* less where w * H / h is a whole number; never more than w * H / h.
C10_Truncates ==
    pc = "stretch_out" =>
        \A i \in 1..Len(images) :
            LET exact == images[i].w * img_height
                floor == exact \div images[i].h
            IN  /\ image[i].h = img_height
                /\ image[i].w * images[i].h <= exact
                /\ exact <= image[i].w * images[i].h + images[i].h
                /\ \/ image[i].w = floor
                   \/ image[i].w = floor - 1 /\ exact % images[i].h = 0

\* C10's case: a stretch that cuts off more than half a pixel.
C10_Witness ==
    /\ pc = "stretch_out"
    /\ image[1].h = img_height
    /\ 2 * (images[1].w * img_height - image[1].w * images[1].h) > images[1].h

====
